---- MODULE Spec2Model ----
(***************************************************************************)
(* ckanext-cloudstorage: ResourceCloudStorage (storage.py) and the plugin  *)
(* configuration it reads (config.py).                                     *)
(*                                                                         *)
(* The state is the plugin configuration, the set of installed optional    *)
(* SDK modules, the objects held by the storage provider's container, the  *)
(* ResourceCloudStorage instance in use, and a record of what the last     *)
(* call did (the provider calls it issued and how it ended).               *)
(***************************************************************************)
EXTENDS Integers, Sequences, FiniteSets, TLC

VARIABLES
    driver_name,      \* tk.config["ckanext.cloudstorage.driver"]
    driver_options,   \* keys of literal_eval(tk.config[...driver_options])
    installed,        \* optional SDK modules that can be imported
    use_secure_urls,  \* tk.config["ckanext.cloudstorage.use_secure_urls"]
    leave_files,      \* tk.config["ckanext.cloudstorage.leave_files"]
    secure_ttl,       \* tk.config["ckanext.cloudstorage.secure_ttl"]
    objects,          \* the container: object key -> object or NoObject
    rcs,              \* the ResourceCloudStorage instance, or NoStorage
    last              \* what the last call did

config_vars == <<driver_name, driver_options, installed,
                 use_secure_urls, leave_files, secure_ttl>>
vars == <<driver_name, driver_options, installed, use_secure_urls,
          leave_files, secure_ttl, objects, rcs, last>>

----------------------------------------------------------------------------
(* Bounds of the model *)

\* longest uploaded file, in bytes
MaxLen == 1
\* largest configured secure_ttl, in seconds
MaxTTL == 2
\* latest clock reading (datetime.utcnow()) at which a URL is generated
MaxTime == 1

\* storage.py:29 sets 5 * 1024 * 1024; the model keeps the block-wise
\* algorithm and scales the block to one byte so that files of MaxLen
\* bytes span several blocks.
AWS_UPLOAD_PART_SIZE == 1

\* storage.py:33; defined by the module and read nowhere in it
DEFAULT_SECURE_TTL == 3600

Bytes == {0, 1}
Data == UNION {[1..n -> Bytes] : n \in 0..MaxLen}

\* Python's None where a string is expected
None == "None"
\* Python truthiness of a string-or-None value
Truthy(s) == s # None /\ s # ""

----------------------------------------------------------------------------
(* Driver names are character sequences so that `"S3" in driver_name`      *)
(* is the substring test the code performs.                                *)

AZURE_BLOBS == <<"A","Z","U","R","E","_","B","L","O","B","S">>
S3_US_WEST == <<"S","3","_","U","S","_","W","E","S","T">>
GOOGLE_STORAGE == <<"G","O","O","G","L","E","_","S","T","O","R","A","G","E">>
DriverNames == {AZURE_BLOBS, S3_US_WEST, GOOGLE_STORAGE}

\* Python's `sub in s` on strings
StrIn(sub, s) ==
    \E i \in 1..(Len(s) - Len(sub) + 1) : SubSeq(s, i, i + Len(sub) - 1) = sub

Modules == {"boto3", "azure.storage"}

----------------------------------------------------------------------------
(* File names.  munge.munge_filename (ckan.lib.munge) normalises a name;   *)
(* on the names of the model it lower-cases.  It never returns "".         *)

UploadNames == {"A.csv"}
MultipartNames == {"b.csv"}
\* urls a stored model.Resource row can carry
OldUrls == {"", "A.csv", "b.csv"}
Ids == {"r1"}

munge_filename(name) == IF name = "A.csv" THEN "a.csv" ELSE name

\* os.path.join("resources", rid, munge.munge_filename(filename))
path_from_filename(rid, filename) == <<"resources", rid, munge_filename(filename)>>

\* every object name the container may be asked for
Keys == {<<"resources", i, n>> : i \in Ids, n \in {"A.csv", "a.csv", "b.csv"}}

----------------------------------------------------------------------------
(* Hashes.  MD5 is modelled as an injective function of its input (no      *)
(* collisions): a digest is represented by the bytes it was computed from. *)
(* A plain hexdigest is kind "hex"; the multipart form                     *)
(* hexdigest + "-" + str(block_count) is kind "hex-n", the digest of the   *)
(* concatenated per-block digests, represented by the list of blocks.      *)

RECURSIVE ReadBlocks(_)
\* the successive non-empty fobj.read(AWS_UPLOAD_PART_SIZE) results
ReadBlocks(bytes) ==
    IF bytes = <<>> THEN <<>>
    ELSE IF Len(bytes) <= AWS_UPLOAD_PART_SIZE THEN <<bytes>>
    ELSE <<SubSeq(bytes, 1, AWS_UPLOAD_PART_SIZE)>>
         \o ReadBlocks(SubSeq(bytes, AWS_UPLOAD_PART_SIZE + 1, Len(bytes)))

\* hashlib.md5(bytes).hexdigest()
md5_hexdigest(bytes) == [kind |-> "hex", blocks |-> <<bytes>>, n |-> 0]

\* _md5sum(fobj), for a stream whose unread remainder is `bytes`
_md5sum(bytes) ==
    [kind |-> "hex-n", blocks |-> ReadBlocks(bytes), n |-> Len(ReadBlocks(bytes))]

NoHash == [kind |-> "none", blocks |-> <<>>, n |-> 0]

\* container.get_object raising ObjectDoesNotExistError
NoObject == [exists |-> FALSE, size |-> 0, hash |-> NoHash]

\* what the provider reports for an object holding `bytes`; the provider
\* chooses the ETag form (plain MD5, or multipart MD5 for a multipart put)
StoredObject(bytes, multipart_etag) ==
    [exists |-> TRUE, size |-> Len(bytes),
     hash |-> IF multipart_etag THEN _md5sum(bytes) ELSE md5_hexdigest(bytes)]

\* the unread remainder of a stream holding `bytes`, positioned at `pos`
Rest(bytes, pos) == SubSeq(bytes, pos + 1, Len(bytes))

----------------------------------------------------------------------------
(* Configuration-derived properties of CloudStorage *)

can_use_advanced_azure ==
    IF driver_name = AZURE_BLOBS
    THEN "azure.storage" \in installed
    ELSE FALSE

can_use_advanced_aws ==
    IF StrIn(<<"S", "3">>, driver_name)
    THEN IF "host" \notin driver_options
         THEN FALSE
         ELSE "boto3" \in installed
    ELSE FALSE

----------------------------------------------------------------------------
(* Initial states *)

\* the instance attributes; `made` is FALSE while no instance exists
NoStorage ==
    [made |-> FALSE, filename |-> None, old_filename |-> None,
     file_upload |-> <<>>, pos |-> 0, clear |-> FALSE,
     url |-> None, url_type |-> None]

NoKey == <<>>
NoUrl == [kind |-> "None", path |-> NoKey, issued |-> 0, expires |-> 0]
NoArgs == [valid_upload |-> FALSE, has_id |-> FALSE, multipart |-> FALSE]

\* `last` before any call.  args, found, same_size, same_md5 and same_multi
\* record what the call was given and what the container held when it
\* started; the other fields record what the call did.
NoCall ==
    [op |-> "none", outcome |-> "return", args |-> NoArgs,
     key |-> NoKey, found |-> FALSE,
     same_size |-> FALSE, same_md5 |-> FALSE, same_multi |-> FALSE,
     uploads |-> 0, azure_uploads |-> 0, deletes |-> 0, del_key |-> NoKey,
     url |-> NoUrl, aws |-> FALSE, azure |-> FALSE]

\* every configuration the plugin can be started with (config.py)
ConfigInit ==
    /\ driver_name \in DriverNames
    /\ driver_options \in {{"key", "secret"}, {"key", "secret", "host"}}
    /\ installed \in SUBSET Modules
    /\ use_secure_urls \in BOOLEAN
    /\ leave_files \in BOOLEAN
    /\ secure_ttl \in 1..MaxTTL

\* Uploads: an empty container and no instance yet.  __init__ and upload
\* never read use_secure_urls or secure_ttl, which are held at one value.
Init ==
    /\ ConfigInit
    /\ use_secure_urls = FALSE
    /\ secure_ttl = MaxTTL
    /\ objects = [k \in Keys |-> NoObject]
    /\ rcs = NoStorage
    /\ last = NoCall

----------------------------------------------------------------------------
(* ResourceCloudStorage.__init__(resource)                                 *)
(*   upload: resource["upload"]; kind "file" is a cgi.FieldStorage or      *)
(*           FlaskFileStorage, "other" any other value, "none" absent      *)
(*   row: the url of the model.Resource row resource["id"], "missing"      *)
(*        when the query returns None                                      *)
(* resource["last_modified"] (a timestamp) is not modelled.                *)

NoUpload == [kind |-> "none", filename |-> "", data |-> <<>>]
Uploads ==
    {NoUpload,
     [kind |-> "other", filename |-> "", data |-> <<>>],
     [kind |-> "file", filename |-> "", data |-> <<>>]}
    \cup {[kind |-> "file", filename |-> f, data |-> d] : f \in UploadNames, d \in Data}

__init__(upload_field_storage, clear_upload, multipart_name, id) ==
    LET args == [valid_upload |-> upload_field_storage.kind = "file"
                                  /\ upload_field_storage.filename # "",
                 has_id |-> Truthy(id),
                 multipart |-> Truthy(multipart_name)]
        done == [NoCall EXCEPT !.op = "init", !.args = args]
    IN
    IF upload_field_storage.kind = "file" /\ upload_field_storage.filename # ""
    THEN /\ rcs' = [NoStorage EXCEPT !.made = TRUE,
                        !.filename = munge_filename(upload_field_storage.filename),
                        !.file_upload = upload_field_storage.data,
                        !.clear = clear_upload,
                        !.url = munge_filename(upload_field_storage.filename),
                        !.url_type = "upload"]
         /\ last' = done
    ELSE IF Truthy(multipart_name) /\ can_use_advanced_aws
    THEN /\ rcs' = [NoStorage EXCEPT !.made = TRUE,
                        !.clear = clear_upload,
                        !.url = munge_filename(multipart_name),
                        !.url_type = "upload"]
         /\ last' = done
    ELSE IF clear_upload /\ Truthy(id)
    THEN \E row \in OldUrls \cup {"missing"} :
            IF row = "missing"
            THEN \* old_resource is None: old_resource.url raises AttributeError
                 /\ rcs' = rcs
                 /\ last' = [done EXCEPT !.outcome = "raise"]
            ELSE /\ rcs' = [NoStorage EXCEPT !.made = TRUE,
                                !.clear = clear_upload,
                                !.old_filename = row,
                                !.url_type = ""]
                 /\ last' = done
    ELSE /\ rcs' = [NoStorage EXCEPT !.made = TRUE, !.clear = clear_upload]
         /\ last' = done

CallInit ==
    /\ \E upload_field_storage \in Uploads,
          clear_upload \in BOOLEAN,
          multipart_name \in MultipartNames \cup {None},
          id \in Ids \cup {None} :
            __init__(upload_field_storage, clear_upload, multipart_name, id)
    /\ UNCHANGED <<config_vars, objects>>

----------------------------------------------------------------------------
(* ResourceCloudStorage.upload(id)                                         *)

\* what the container holds at `key` when upload starts, against the whole
\* uploaded file
Seen(key) ==
    [NoCall EXCEPT !.op = "upload", !.key = key,
        !.found = objects[key].exists,
        !.same_size = objects[key].exists
                      /\ objects[key].size = Len(rcs.file_upload),
        !.same_md5 = objects[key].hash = md5_hexdigest(rcs.file_upload),
        !.same_multi = objects[key].hash = _md5sum(rcs.file_upload)]

NoLocalFile == 0 - 1

\* the Azure branch: blob_service.create_blob_from_stream, unconditionally
\* (content_settings only carries the guessed mime type)
UploadAzure(id) ==
    LET key == path_from_filename(id, rcs.filename)
        sent == Rest(rcs.file_upload, rcs.pos)
    IN  \E multipart_etag \in BOOLEAN :
        /\ objects' = [objects EXCEPT ![key] = StoredObject(sent, multipart_etag)]
        /\ rcs' = [rcs EXCEPT !.pos = Len(rcs.file_upload)]
        /\ last' = [Seen(key) EXCEPT !.azure_uploads = 1]

\* self.container.upload_object_via_stream(iter(file_upload), object_name)
\* with the stream standing at pos_iter
UploadViaStream(key, pos_iter) ==
    \E multipart_etag \in BOOLEAN :
        /\ objects' = [objects EXCEPT
                ![key] = StoredObject(Rest(rcs.file_upload, pos_iter), multipart_etag)]
        /\ rcs' = [rcs EXCEPT !.pos = Len(rcs.file_upload)]
        /\ last' = [Seen(key) EXCEPT !.uploads = 1]

\* the libcloud branch: look the object up, compare size and hashes, then
\* upload_object_via_stream unless one of the two hashes matches.
\*   local: os.path.getsize(self.filename) when os.path.isfile(self.filename)
\*          holds in the working directory, NoLocalFile otherwise
UploadLibcloud(id) ==
    LET key == path_from_filename(id, rcs.filename)
        cloud_object == objects[key]
        bytes == rcs.file_upload
    IN  IF ~cloud_object.exists
        THEN \* ObjectDoesNotExistError
             UploadViaStream(key, rcs.pos)
        ELSE \E local \in {NoLocalFile} \cup 0..MaxLen :
             LET isfile == local # NoLocalFile
                 file_size == IF isfile THEN local ELSE Len(bytes)
                 \* seek(0, SEEK_END); tell(); seek(0, SEEK_SET):
                 \* only without a local file
                 pos_sized == IF isfile THEN rcs.pos ELSE 0
                 hash_file == md5_hexdigest(Rest(bytes, pos_sized))
                 \* read after self.file_upload.seek(0, os.SEEK_SET)
                 multi_hash_file == _md5sum(Rest(bytes, 0))
             IN  IF file_size = cloud_object.size
                 THEN IF hash_file = cloud_object.hash
                         \/ multi_hash_file = cloud_object.hash
                      THEN \* matching hash, skipping upload
                           /\ objects' = objects
                           /\ rcs' = [rcs EXCEPT !.pos = 0]
                           /\ last' = Seen(key)
                      ELSE UploadViaStream(key, 0)
                 ELSE UploadViaStream(key, pos_sized)

\* what the container holds at the old file's key when upload starts
SeenOld(id) ==
    [NoCall EXCEPT !.op = "upload",
        !.found = IF Truthy(rcs.old_filename)
                  THEN objects[path_from_filename(id, rcs.old_filename)].exists
                  ELSE FALSE]

\* the clear branch: delete_object(get_object(path)); a missing object
\* (ObjectDoesNotExistError) is swallowed
UploadClear(id) ==
    LET key == path_from_filename(id, rcs.old_filename)
    IN  /\ rcs' = rcs
        /\ IF objects[key].exists
           THEN /\ objects' = [objects EXCEPT ![key] = NoObject]
                /\ last' = [SeenOld(id) EXCEPT !.key = key,
                                !.deletes = 1, !.del_key = key]
           ELSE /\ objects' = objects
                /\ last' = [SeenOld(id) EXCEPT !.key = key]

\* upload with the leave_files test of the clear branch left out
upload_ignoring_leave_files(id) ==
    IF Truthy(rcs.filename)
    THEN IF can_use_advanced_azure
         THEN UploadAzure(id)
         ELSE UploadLibcloud(id)
    ELSE IF rcs.clear /\ Truthy(rcs.old_filename)
    THEN UploadClear(id)
    ELSE /\ UNCHANGED <<objects, rcs>>
         /\ last' = SeenOld(id)

upload(id) ==
    IF Truthy(rcs.filename)
    THEN IF can_use_advanced_azure
         THEN UploadAzure(id)
         ELSE UploadLibcloud(id)
    ELSE IF rcs.clear /\ Truthy(rcs.old_filename) /\ ~leave_files
    THEN UploadClear(id)
    ELSE /\ UNCHANGED <<objects, rcs>>
         /\ last' = SeenOld(id)

CallUpload ==
    /\ rcs.made
    /\ \E id \in Ids : upload(id)
    /\ UNCHANGED config_vars

----------------------------------------------------------------------------
(* ResourceCloudStorage.get_url_by_path(path) and get_url_from_filename    *)
(*   now: datetime.utcnow() when the URL is generated                      *)
(*   cdn: whether driver.get_object_cdn_url returns a URL (otherwise it    *)
(*        raises NotImplementedError)                                      *)
(*   extra_url: whether "url" is in obj.extra                              *)
(* A URL is represented by how it was made, the object name it points to,  *)
(* and for a signed URL the time it was issued and the time it expires.    *)

\* get_url_by_path signing for DEFAULT_SECURE_TTL instead of the configured ttl
get_url_by_path_default_ttl(path, now, cdn, extra_url) ==
    LET seen == [NoCall EXCEPT !.op = "get_url", !.key = path,
                     !.found = objects[path].exists]
        returns(u) == [seen EXCEPT !.url = u]
    IN
    IF can_use_advanced_azure /\ use_secure_urls
    THEN \* make_blob_url with a shared access signature,
         \* expiry = utcnow() + timedelta(seconds=DEFAULT_SECURE_TTL)
         last' = returns([kind |-> "azure-sas", path |-> path,
                          issued |-> now, expires |-> now + DEFAULT_SECURE_TTL])
    ELSE IF can_use_advanced_aws /\ use_secure_urls
    THEN \* generate_presigned_url(ExpiresIn=DEFAULT_SECURE_TTL)
         last' = returns([kind |-> "s3-presigned", path |-> path,
                          issued |-> now, expires |-> now + DEFAULT_SECURE_TTL])
    ELSE IF ~objects[path].exists
    THEN \* ObjectDoesNotExistError: return None
         last' = seen
    ELSE IF cdn
    THEN last' = returns([NoUrl EXCEPT !.kind = "cdn", !.path = path])
    ELSE IF StrIn(<<"S", "3">>, driver_name)
    THEN \* urljoin("https://" + host, container + "/" + path)
         last' = returns([NoUrl EXCEPT !.kind = "s3-public", !.path = path])
    ELSE IF extra_url
    THEN last' = returns([NoUrl EXCEPT !.kind = "extra-url", !.path = path])
    ELSE \* the NotImplementedError is raised again
         last' = [seen EXCEPT !.outcome = "raise"]

get_url_by_path(path, now, cdn, extra_url) ==
    LET seen == [NoCall EXCEPT !.op = "get_url", !.key = path,
                     !.found = objects[path].exists]
        returns(u) == [seen EXCEPT !.url = u]
    IN
    IF can_use_advanced_azure /\ use_secure_urls
    THEN \* make_blob_url with a shared access signature,
         \* expiry = utcnow() + timedelta(seconds=secure_ttl)
         last' = returns([kind |-> "azure-sas", path |-> path,
                          issued |-> now, expires |-> now + secure_ttl])
    ELSE IF can_use_advanced_aws /\ use_secure_urls
    THEN \* generate_presigned_url(ExpiresIn=secure_ttl)
         last' = returns([kind |-> "s3-presigned", path |-> path,
                          issued |-> now, expires |-> now + secure_ttl])
    ELSE IF ~objects[path].exists
    THEN \* ObjectDoesNotExistError: return None
         last' = seen
    ELSE IF cdn
    THEN last' = returns([NoUrl EXCEPT !.kind = "cdn", !.path = path])
    ELSE IF StrIn(<<"S", "3">>, driver_name)
    THEN \* urljoin("https://" + host, container + "/" + path)
         last' = returns([NoUrl EXCEPT !.kind = "s3-public", !.path = path])
    ELSE IF extra_url
    THEN last' = returns([NoUrl EXCEPT !.kind = "extra-url", !.path = path])
    ELSE \* the NotImplementedError is raised again
         last' = [seen EXCEPT !.outcome = "raise"]

get_url_from_filename(rid, filename, now, cdn, extra_url) ==
    get_url_by_path(path_from_filename(rid, filename), now, cdn, extra_url)

CallGetUrlByPath ==
    /\ rcs.made
    /\ \E path \in Keys, now \in 0..MaxTime, cdn \in BOOLEAN, extra_url \in BOOLEAN :
            get_url_by_path(path, now, cdn, extra_url)
    /\ UNCHANGED <<config_vars, objects, rcs>>

CallGetUrlFromFilename ==
    /\ rcs.made
    /\ \E rid \in Ids, filename \in UploadNames \cup MultipartNames,
          now \in 0..MaxTime, cdn \in BOOLEAN, extra_url \in BOOLEAN :
            get_url_from_filename(rid, filename, now, cdn, extra_url)
    /\ UNCHANGED <<config_vars, objects, rcs>>

\* a caller reading the two capability properties
ReadCapabilities ==
    /\ rcs.made
    /\ last' = [NoCall EXCEPT !.op = "caps",
                    !.aws = can_use_advanced_aws,
                    !.azure = can_use_advanced_azure]
    /\ UNCHANGED <<config_vars, objects, rcs>>

\* Downloads: an instance built from a resource without upload fields, over
\* a container that holds or lacks the resource's file.  The URL code never
\* reads leave_files, which is held at one value.
InitUrl ==
    /\ ConfigInit
    /\ leave_files = FALSE
    /\ \E held \in SUBSET {path_from_filename(i, n) : i \in Ids, n \in UploadNames} :
            objects = [k \in Keys |-> IF k \in held
                                      THEN StoredObject(<<>>, FALSE)
                                      ELSE NoObject]
    /\ rcs = [NoStorage EXCEPT !.made = TRUE]
    /\ last = NoCall

----------------------------------------------------------------------------
Next ==
    \/ CallInit
    \/ CallUpload

Spec == Init /\ [][Next]_vars

NextUrl ==
    \/ CallGetUrlByPath
    \/ CallGetUrlFromFilename
    \/ ReadCapabilities

SpecUrl == InitUrl /\ [][NextUrl]_vars

----------------------------------------------------------------------------
(* Properties *)

UploadReturned == last.op = "upload" /\ last.outcome = "return"
\* the last call was upload(id) with a file attached, on the non-Azure path
LibcloudUpload == UploadReturned /\ Truthy(rcs.filename) /\ ~can_use_advanced_azure
SameAsUploaded == last.found /\ last.same_size /\ (last.same_md5 \/ last.same_multi)

\* C1: on the non-Azure path with a file attached, upload(id) makes no
\* upload_object_via_stream call exactly when the object at
\* resources/<id>/<filename> exists with the size of the uploaded file and a
\* hash equal to its plain or its multipart MD5; otherwise it uploads the
\* stream exactly once, to that key.
C1_SkipExactlyWhenSameSizeAndHash ==
    LibcloudUpload =>
        /\ last.key = <<"resources", "r1", rcs.filename>>
        /\ last.uploads = IF SameAsUploaded THEN 0 ELSE 1

\* the instance attributes the constructor derives from the resource
ClearRequested ==
    /\ ~Truthy(rcs.filename)
    /\ rcs.clear
    /\ Truthy(rcs.old_filename)

\* what __init__ leaves in the instance, against the resource it was given:
\* a file name exactly for a valid upload, and an old file name only for a
\* resource without valid upload that carried clear_upload and an id and
\* was not taken by the multipart branch
InitOutcome ==
    last.op = "init" /\ last.outcome = "return" =>
        /\ rcs.made
        /\ Truthy(rcs.filename) <=> last.args.valid_upload
        /\ rcs.old_filename # None <=>
                /\ ~last.args.valid_upload
                /\ ~(last.args.multipart /\ can_use_advanced_aws)
                /\ rcs.clear
                /\ last.args.has_id

NeverDeletesWhenLeavingFiles == leave_files => last.deletes = 0

\* C2 as stated: with leave_files no call issues delete_object; without it,
\* upload(id) issues the delete if and only if the resource carried no valid
\* upload, carried clear_upload and an id, was not taken by the multipart
\* branch, and the stored url is non-empty.
C2_DeleteIffClearRequested ==
    /\ NeverDeletesWhenLeavingFiles
    /\ InitOutcome
    /\ last.op = "upload" /\ ~leave_files =>
            (last.deletes = 1 <=> ClearRequested)

\* C2 amended: as C2, and the delete is issued only when get_object finds
\* an object at resources/<id>/<munged old url>; when it finds none,
\* upload(id) returns without issuing a delete.
C2_DeleteIffClearRequestedAndFound ==
    /\ NeverDeletesWhenLeavingFiles
    /\ InitOutcome
    /\ last.op = "upload" /\ ~leave_files =>
            /\ last.deletes = 1 <=> (ClearRequested /\ last.found)
            /\ last.deletes = 1 =>
                    last.del_key = <<"resources", "r1", munge_filename(rcs.old_filename)>>
            /\ last.deletes = 1 => ~objects[last.del_key].exists

\* C2 witness: without leave_files, an upload(id) on an instance built from
\* a cleared resource has deleted the old object
C2_DeleteIssued ==
    /\ ~leave_files
    /\ last.op = "upload"
    /\ ClearRequested
    /\ last.deletes = 1

Signed(url) == url.kind \in {"azure-sas", "s3-presigned"}
GotUrl == last.op = "get_url" /\ last.outcome = "return" /\ last.url # NoUrl

\* C3 as stated: with use_secure_urls every URL returned by get_url_by_path
\* or get_url_from_filename is signed and expires secure_ttl seconds after
\* it was generated.
C3_SecureUrlsAlwaysSigned ==
    use_secure_urls /\ GotUrl =>
        /\ Signed(last.url)
        /\ last.url.expires = last.url.issued + secure_ttl

\* the configuration offers one of the two signing SDK paths
SigningAvailable ==
    \/ driver_name = AZURE_BLOBS /\ "azure.storage" \in installed
    \/ /\ StrIn(<<"S", "3">>, driver_name)
       /\ "host" \in driver_options
       /\ "boto3" \in installed

\* C3 amended: with use_secure_urls and the Azure driver with azure-storage
\* installed, or an S3 driver with a "host" option and boto3 installed,
\* every call returns a signed URL for the path that expires secure_ttl
\* seconds after it was generated; in every other configuration with
\* use_secure_urls a returned URL is unsigned.
C3_SecureUrlsSignedWhenAvailable ==
    use_secure_urls /\ last.op = "get_url" =>
        IF SigningAvailable
        THEN /\ GotUrl
             /\ Signed(last.url)
             /\ last.url.path = last.key
             /\ last.url.expires = last.url.issued + secure_ttl
        ELSE GotUrl => ~Signed(last.url)

\* C3 witness: a signed URL was returned under use_secure_urls
C3_SignedUrlReturned ==
    /\ use_secure_urls
    /\ SigningAvailable
    /\ GotUrl
    /\ Signed(last.url)
    /\ last.url.issued > 0

\* C4: get_url_by_path ends by returning a URL or None; it returns None
\* whenever no object exists at the path, and it does not end with an
\* exception when the object exists.
C4_UrlOrNone ==
    last.op = "get_url" =>
        /\ last.outcome = "return"
        /\ ~last.found => last.url = NoUrl

\* C5: can_use_advanced_aws is True exactly when boto3 is installed and the
\* driver name contains "S3"; can_use_advanced_azure is True exactly when
\* the driver is AZURE_BLOBS and azure-storage is installed; the two are
\* never True together.
C5_Capabilities ==
    last.op = "caps" =>
        /\ last.aws <=> ("boto3" \in installed /\ StrIn(<<"S", "3">>, driver_name))
        /\ last.azure <=> (driver_name = AZURE_BLOBS /\ "azure.storage" \in installed)
        /\ ~(last.aws /\ last.azure)

====
